---- MODULE Spec2Model ----
(***************************************************************************)
(* Model of the suid package (src/suid/__init__.py): generation of         *)
(* sortable unique string identifiers (suid_gen) and the extraction of the *)
(* encoded date/time (suid_to_datetime).                                   *)
(*                                                                         *)
(* Python integers are unbounded, and the values handled here need up to   *)
(* 512 bits, so an integer is a sequence of bits, least significant bit    *)
(* first, without leading zero bits (zero is the empty sequence).  A       *)
(* signed integer is a record [neg, mag].  A Python float is a record      *)
(* [neg, m, e] standing for (+/-) m * 2^e with m of at most 53 bits, and   *)
(* the float operations round to nearest, ties to even, as IEEE-754        *)
(* binary64 does.                                                          *)
(***************************************************************************)
EXTENDS Integers, Sequences, FiniteSets, TLC

(***************************************************************************)
(* Unbounded non-negative integers as bit sequences.                       *)
(***************************************************************************)
Min(a, b) == IF a < b THEN a ELSE b

Max(a, b) == IF a < b THEN b ELSE a

\* drop the leading (most significant) zero bits
Norm(b) ==
    LET S == {i \in 1..Len(b) : b[i] = 1}
    IN  IF S = {} THEN <<>>
        ELSE SubSeq(b, 1, CHOOSE i \in S : \A j \in S : j <= i)

\* a machine-size natural number (below 2^31) as bits, and back
FromNat(n) == Norm([i \in 1..31 |-> (n \div 2 ^ (i - 1)) % 2])

RECURSIVE ToNat(_)
ToNat(b) == IF b = <<>> THEN 0 ELSE Head(b) + 2 * ToNat(Tail(b))

Pow2(e) == [i \in 1..(e + 1) |-> IF i = e + 1 THEN 1 ELSE 0]

Ones(e) == [i \in 1..e |-> 1]

ShiftLeft(b, k) == IF b = <<>> THEN <<>> ELSE [i \in 1..k |-> 0] \o b

ShiftRight(b, k) == IF k >= Len(b) THEN <<>> ELSE SubSeq(b, k + 1, Len(b))

LowBits(b, k) == Norm(SubSeq(b, 1, Min(k, Len(b))))

Less(a, b) ==
    IF Len(a) # Len(b) THEN Len(a) < Len(b)
    ELSE \E i \in 1..Len(a) :
            /\ a[i] < b[i]
            /\ \A j \in (i + 1)..Len(a) : a[j] = b[j]

LessEq(a, b) == a = b \/ Less(a, b)

\* b + 1: the lowest zero bit becomes 1, the one bits below it 0
Inc(b) ==
    LET Z == {i \in 1..Len(b) : b[i] = 0}
        k == IF Z = {} THEN Len(b) + 1 ELSE CHOOSE i \in Z : \A j \in Z : i <= j
    IN  [i \in 1..Max(Len(b), k) |-> IF i < k THEN 0 ELSE IF i = k THEN 1 ELSE b[i]]

\* b - 1 for b > 0: the lowest one bit becomes 0, the zero bits below it 1
Dec(b) ==
    LET k == CHOOSE i \in 1..Len(b) : b[i] = 1 /\ \A j \in 1..(i - 1) : b[j] = 0
    IN  Norm([i \in 1..Len(b) |-> IF i < k THEN 1 ELSE IF i = k THEN 0 ELSE b[i]])

\* a + b
RECURSIVE AddLimbs(_, _, _, _)
AddLimbs(la, lb, j, carry) ==
    IF j > Max(Len(la), Len(lb)) THEN (IF carry = 0 THEN <<>> ELSE <<carry>>)
    ELSE LET acc == carry + (IF j <= Len(la) THEN la[j] ELSE 0)
                          + (IF j <= Len(lb) THEN lb[j] ELSE 0)
         IN  <<acc % 1024>> \o AddLimbs(la, lb, j + 1, acc \div 1024)

\* the 10-bit limbs of b, least significant first, and back
ToLimbs(b) ==
    [j \in 1..((Len(b) + 9) \div 10) |->
        ToNat(SubSeq(b, 10 * (j - 1) + 1, Min(10 * j, Len(b))))]

FromLimbs(l) ==
    Norm([i \in 1..(10 * Len(l)) |->
            (l[(i - 1) \div 10 + 1] \div 2 ^ ((i - 1) % 10)) % 2])

Add(a, b) == FromLimbs(AddLimbs(ToLimbs(a), ToLimbs(b), 1, 0))

RECURSIVE MulLimbs(_, _, _, _)
MulLimbs(l, c, j, carry) ==
    IF j > Len(l) THEN ToLimbs(FromNat(carry))
    ELSE LET acc == carry + l[j] * c
         IN  <<acc % 1024>> \o MulLimbs(l, c, j + 1, acc \div 1024)

\* b * c for a small multiplier 0 <= c <= 2^20
MulSmall(b, c) == FromLimbs(MulLimbs(ToLimbs(b), c, 1, 0))

\* long division, most significant limb first: <<quotient limbs, remainder>>
RECURSIVE DivLimbs(_, _, _, _, _)
DivLimbs(l, d, j, r, q) ==
    IF j = 0 THEN <<q, r>>
    ELSE LET acc == 1024 * r + l[j]
         IN  DivLimbs(l, d, j - 1, acc % d, <<acc \div d>> \o q)

\* divmod(b, d) for a small divisor 0 < d <= 2^20: <<quotient, remainder>>
DivModSmall(b, d) ==
    LET qr == DivLimbs(ToLimbs(b), d, Len(ToLimbs(b)), 0, <<>>)
    IN  <<FromLimbs(qr[1]), qr[2]>>

SInt(neg, mag) == [neg |-> neg /\ mag # <<>>, mag |-> mag]

(***************************************************************************)
(* Python floats (IEEE-754 binary64), for the values that occur here       *)
(* (magnitudes between 1e-6 and 1e21: no subnormals, no overflow).         *)
(***************************************************************************)
\* n * 2^e (plus something in (0, 1) * 2^e when sticky) rounded to 53 bits
RoundBits(n, sticky, e) ==
    IF Len(n) <= 53 THEN [m |-> n, e |-> e]
    ELSE LET s    == Len(n) - 53
             m    == ShiftRight(n, s)
             low  == sticky \/ \E i \in 1..(s - 1) : n[i] = 1
             up   == n[s] = 1 /\ (low \/ m[1] = 1)
             m2   == IF up THEN Inc(m) ELSE m
         IN  IF Len(m2) = 54
             THEN [m |-> ShiftRight(m2, 1), e |-> e + s + 1]
             ELSE [m |-> m2, e |-> e + s]

\* int / int (true division, correctly rounded) for a small divisor d
TrueDivide(u, d) ==
    IF u = <<>> THEN [m |-> <<>>, e |-> 0]
    ELSE LET k  == Max(0, 90 - Len(u))
             qr == DivModSmall(ShiftLeft(u, k), d)
         IN  RoundBits(qr[1], qr[2] # 0, 0 - k)

\* float * c for an integer multiple c of 1000 that a float holds exactly
FloatMul(x, c) == RoundBits(MulSmall(MulSmall(x.m, c \div 1000), 1000), FALSE, x.e)

\* int(float): truncation toward zero
FloatToInt(x) ==
    IF x.e >= 0 THEN ShiftLeft(x.m, x.e) ELSE ShiftRight(x.m, 0 - x.e)

(***************************************************************************)
(* Module constants and alphabets.                                         *)
(***************************************************************************)
\* 2**59 * 50 - 1
UNIX_TIME_MAX_SUPPORTED == Dec(MulSmall(Pow2(59), 50))

BASE32_ENCODE_ALPHABET ==
    << "n", "s", "c", "e", "m", "w", "r", "u", "v", "y", "t", "b", "d", "f",
       "g", "h", "j", "0", "1", "2", "3", "4", "5", "6", "7", "8", "9", "k",
       "p", "q", "z", "x" >>

BASE16_ENCODE_ALPHABET ==
    << "z", "x", "n", "s", "c", "e", "m", "w", "r", "b", "d", "h", "k", "p",
       "q", "y" >>

\* {c: i for i, c in enumerate(alphabet)}: defined on the alphabet's symbols only
Reversed(alphabet) ==
    [c \in {alphabet[i] : i \in 1..Len(alphabet)} |->
        (CHOOSE i \in 1..Len(alphabet) : alphabet[i] = c) - 1]

BASE32_ENCODE_ALPHABET_REVERSED == Reversed(BASE32_ENCODE_ALPHABET)

BASE16_ENCODE_ALPHABET_REVERSED == Reversed(BASE16_ENCODE_ALPHABET)

COUNTER_INITIAL_MAX == 536870911

SUID_LENGTH_DEFAULT == 24

SUID_LENGTH_MAX == 108

SUID_LENGTH_MIN == 13

(***************************************************************************)
(* Datetimes are counts of microseconds since DATETIME_UNIX_EPOCH (signed: *)
(* a datetime may lie before the epoch).  The optional parameter at is     *)
(* [given, neg, mag]; given = FALSE is Python's None.                      *)
(***************************************************************************)
AtNone == [given |-> FALSE, neg |-> FALSE, mag |-> <<>>]

AtDatetime(neg, mag) == [given |-> TRUE, neg |-> neg /\ mag # <<>>, mag |-> mag]

\* int((at - DATETIME_UNIX_EPOCH).total_seconds() * 1000_000_000)
DatetimeToTimeNs(at) ==
    LET total_seconds == TrueDivide(at.mag, 1000000)
        product       == FloatMul(total_seconds, 1000000000)
    IN  SInt(at.neg, FloatToInt(product))

\* mutant: the upper limit itself is refused
TimeNsInRangeStrict(t) == ~t.neg /\ Less(t.mag, UNIX_TIME_MAX_SUPPORTED)

\* 0 <= time_ns_to_encode <= UNIX_TIME_MAX_SUPPORTED
TimeNsInRange(t) == ~t.neg /\ LessEq(t.mag, UNIX_TIME_MAX_SUPPORTED)

\* for _ in range(n): number, mod = divmod(number, 32); result = ALPHABET[mod] + result
RECURSIVE EncodeTimeDigits(_, _, _)
EncodeTimeDigits(number, result, n) ==
    IF n = 0 THEN <<number, result>>
    ELSE EncodeTimeDigits(ShiftRight(number, 5),
                          <<BASE32_ENCODE_ALPHABET[ToNat(LowBits(number, 5)) + 1]>> \o result,
                          n - 1)

\* for _ in range(n): hash_number, mod = divmod(hash_number, 32); result += ALPHABET[mod]
\* (n iterations are the first n \div 2 iterations followed by the others)
RECURSIVE EncodeHashDigits(_, _, _)
EncodeHashDigits(hash_number, result, n) ==
    IF n <= 0 THEN <<hash_number, result>>
    ELSE IF n = 1
    THEN <<ShiftRight(hash_number, 5),
           result \o <<BASE32_ENCODE_ALPHABET[ToNat(LowBits(hash_number, 5)) + 1]>>>>
    ELSE LET first == EncodeHashDigits(hash_number, result, n \div 2)
         IN  IF Len(first[1]) >= 0 /\ Len(first[2]) >= 0
             THEN EncodeHashDigits(first[1], first[2], n - n \div 2)
             ELSE first

\* mutant: one character too many is taken from the hash
HashDigitCountOffByOne(length) == length - 12

\* the number of base-32 characters taken from the hash: range(length - 12 - 1)
HashDigitCount(length) == length - 12 - 1

\* mutant: the assertion looks at the number before its last four bits are dropped
EntropyLeftWholeNumber(hash_number) == hash_number # <<>>

\* assert hash_number // 16: some random bits are left
EntropyLeft(hash_number) == ShiftRight(hash_number, 4) # <<>>

RaiseLengthMax == "ValueError: maximum possible SUID length"

RaiseLengthMin == "ValueError: minimum possible SUID length"

RaiseTimeNs == "ValueError: time_ns is out of range"

RaiseAssertion == "AssertionError"

RaiseIndex == "IndexError"

RaiseKey == "KeyError"

Returned == "return"

\* the time that gets encoded: the given datetime, else the clock reading
TimeNsToEncode(at, time_ns_now) ==
    IF at.given THEN DatetimeToTimeNs(at) ELSE SInt(FALSE, time_ns_now)

\* Evaluated(v) is TRUE; testing it makes TLC compute v at that point rather
\* than inside the computation that uses v
Evaluated(v) == v = v

\* suid_gen after the counter's critical section: [outcome, result, time_ns_to_encode]
GenerateRest(at, length, time_ns_now, hash_number) ==
    LET time_ns_to_encode == TimeNsToEncode(at, time_ns_now)
    IN  IF Evaluated(time_ns_to_encode) /\ ~TimeNsInRange(time_ns_to_encode)
        THEN [outcome |-> RaiseTimeNs, result |-> <<>>,
              time_ns_to_encode |-> time_ns_to_encode]
        ELSE LET number == DivModSmall(time_ns_to_encode.mag, 50)[1]
                 enc    == EncodeTimeDigits(number, <<>>, 11)
             IN  IF Evaluated(number) /\ Evaluated(enc) /\ Len(enc[1]) > 4
                 THEN [outcome |-> RaiseIndex, result |-> <<>>,
                       time_ns_to_encode |-> time_ns_to_encode]
                 ELSE LET stamp == <<BASE16_ENCODE_ALPHABET[ToNat(enc[1]) + 1]>> \o enc[2]
                          rnd   == IF Evaluated(stamp)
                                   THEN EncodeHashDigits(hash_number, stamp,
                                                         HashDigitCount(length))
                                   ELSE <<>>
                          last  == rnd[2] \o
                                   <<BASE16_ENCODE_ALPHABET[ToNat(LowBits(rnd[1], 4)) + 1]>>
                      IN  IF Evaluated(rnd) /\ EntropyLeft(rnd[1])
                          THEN [outcome |-> Returned, result |-> last,
                                time_ns_to_encode |-> time_ns_to_encode]
                          ELSE [outcome |-> RaiseAssertion, result |-> <<>>,
                                time_ns_to_encode |-> time_ns_to_encode]

\* mutant: the loop reads one character more
Slice1To13(suid) == SubSeq(suid, 2, Min(13, Len(suid)))

\* suid[1:12]: the characters at Python positions 1..11 that exist
Slice1To12(suid) == SubSeq(suid, 2, Min(12, Len(suid)))

\* for c in chars: number *= 32; number += BASE32_ENCODE_ALPHABET_REVERSED[c]
RECURSIVE DecodeDigits(_, _)
DecodeDigits(number, chars) ==
    IF chars = <<>> THEN number
    ELSE DecodeDigits(
            LET d == FromNat(BASE32_ENCODE_ALPHABET_REVERSED[Head(chars)])
                shifted == ShiftLeft(number, 5)
            IN  IF shifted = <<>> THEN d
                ELSE [i \in 1..Len(shifted) |->
                        IF i <= Len(d) THEN d[i] ELSE shifted[i]],
            Tail(chars))

\* the lookups of suid_to_datetime that raise KeyError
DecodeKeyError(suid) ==
    \/ suid[1] \notin DOMAIN BASE16_ENCODE_ALPHABET_REVERSED
    \/ \E i \in 1..Len(Slice1To12(suid)) :
          Slice1To12(suid)[i] \notin DOMAIN BASE32_ENCODE_ALPHABET_REVERSED

\* time_ns_encoded of suid_to_datetime, for a suid whose lookups succeed
SuidTimeNs(suid) ==
    LET first  == FromNat(BASE16_ENCODE_ALPHABET_REVERSED[suid[1]])
        number == DecodeDigits(first, Slice1To12(suid))
    IN  MulSmall(number, 50)

\* suid_to_datetime: [outcome, value], value in microseconds since the epoch
suid_to_datetime(suid) ==
    IF suid = <<>> THEN [outcome |-> RaiseIndex, value |-> <<>>]
    ELSE IF DecodeKeyError(suid) THEN [outcome |-> RaiseKey, value |-> <<>>]
    ELSE LET time_ns_encoded == SuidTimeNs(suid)
             microseconds_since_epoch == FloatToInt(TrueDivide(time_ns_encoded, 1000))
         IN  [outcome |-> Returned, value |-> microseconds_since_epoch]

(***************************************************************************)
(* Python's comparison of strings (by code point), as sorted() uses it.    *)
(***************************************************************************)
ASCII_DIGITS == << "0", "1", "2", "3", "4", "5", "6", "7", "8", "9" >>

ASCII_LOWERCASE ==
    << "a", "b", "c", "d", "e", "f", "g", "h", "i", "j", "k", "l", "m", "n",
       "o", "p", "q", "r", "s", "t", "u", "v", "w", "x", "y", "z" >>

\* ord(c) for a digit or a lowercase letter
Ord(c) ==
    IF \E i \in 1..Len(ASCII_DIGITS) : ASCII_DIGITS[i] = c
    THEN 47 + (CHOOSE i \in 1..Len(ASCII_DIGITS) : ASCII_DIGITS[i] = c)
    ELSE 96 + (CHOOSE i \in 1..Len(ASCII_LOWERCASE) : ASCII_LOWERCASE[i] = c)

\* a < b for two strings
StrLess(a, b) ==
    \/ \E i \in 1..Min(Len(a), Len(b)) :
          /\ Ord(a[i]) < Ord(b[i])
          /\ \A j \in 1..(i - 1) : a[j] = b[j]
    \/ /\ Len(a) < Len(b)
       /\ \A j \in 1..Len(a) : a[j] = b[j]

(***************************************************************************)
(* Inputs.  A clock reading is any number of nanoseconds; a hash number is *)
(* any 512-bit number (the digest of a string that holds fresh random      *)
(* bytes); a datetime is any number of microseconds.  The sets below hold  *)
(* the values at and around the limits the code tests.                     *)
(***************************************************************************)
MaxCalls == 2

LengthMargin == 1

ClockTicks == 4

\* the number with the given groups of six decimal digits, first group first
RECURSIVE FromGroups(_, _)
FromGroups(acc, groups) ==
    IF groups = <<>> THEN acc
    ELSE FromGroups(Add(MulSmall(acc, 1000000), FromNat(Head(groups))), Tail(groups))

\* 2023-11-08 14:07:02.000133127 UTC, in nanoseconds
ClockSample == FromGroups(<<>>, <<1, 699452, 422000, 133127>>)

Threads == {1, 2}

OneCaller == {1}

Lengths ==
    (SUID_LENGTH_MIN - LengthMargin)..(SUID_LENGTH_MIN + LengthMargin)
    \cup {SUID_LENGTH_DEFAULT}
    \cup (SUID_LENGTH_MAX - LengthMargin)..(SUID_LENGTH_MAX + LengthMargin)

ValidLengths == {l \in Lengths : SUID_LENGTH_MIN <= l /\ l <= SUID_LENGTH_MAX}

Datetimes ==
    { AtDatetime(TRUE, FromNat(1)),                            \* 1969-12-31 23:59:59.999999
      AtDatetime(FALSE, <<>>),                                 \* 1970-01-01 00:00:00
      AtDatetime(FALSE, FromGroups(<<>>, <<1298, 409783, 999801>>)),    \* 2011-02-22 21:23:03.999801
      AtDatetime(FALSE, FromGroups(<<>>, <<28811, 548800, 000000>>)),   \* 2883-01-01 00:00:00
      AtDatetime(FALSE, FromGroups(<<>>, <<28843, 84800, 000000>>)) }   \* 2884-01-01 00:00:00

Ats == {AtNone} \cup Datetimes

ClockValues == {ClockSample, UNIX_TIME_MAX_SUPPORTED, Inc(UNIX_TIME_MAX_SUPPORTED)}

\* the bits that a call of the given length takes from the hash number
BitsTaken(length) == 5 * (length - 13) + 4

\* bit i is set where i * i + i \div 3 leaves 0, 1 or 2 modulo 7
PatternHash == Norm([i \in 1..512 |-> IF (i * i + i \div 3) % 7 < 3 THEN 1 ELSE 0])

HashNumbers ==
    {Ones(512), PatternHash}
    \cup {Pow2(BitsTaken(l)) : l \in ValidLengths}
    \cup {Ones(BitsTaken(l)) : l \in ValidLengths}

\* concurrent callers: two lengths, the clock or a datetime before the epoch
ConcurrentLengths == {SUID_LENGTH_MIN - 1, SUID_LENGTH_MIN}

ConcurrentAts == {AtNone, AtDatetime(TRUE, FromNat(1))}

\* clock readings one microsecond apart
ConcurrentClockValues == {Add(ClockSample, FromNat(1000 * k)) : k \in 0..ClockTicks}

ConcurrentHashNumbers == {PatternHash}

CounterSeeds == {0, COUNTER_INITIAL_MAX - 1}

(***************************************************************************)
(* State.                                                                  *)
(***************************************************************************)
VARIABLES
    counter,          \* _counter
    counter_lock,     \* _counter_lock: 0 when free, else the thread holding it
    pc,               \* where each thread is in suid_gen
    local,            \* each thread's at, length and counter_value, and the value
                      \* of _counter when its call began
    ret,              \* what each thread's last call was given, how it ended, and
                      \* the value of _counter when it began and when it ended
    obtained,         \* the values of _counter read so far, in order
    counter_initial   \* the value _counter was created with

vars == <<counter, counter_lock, pc, local, ret, obtained, counter_initial>>

NoLocal == [at |-> AtNone, length |-> 0, counter_value |-> <<>>, counter_before |-> 0]

NoRet ==
    [op |-> "none", at |-> AtNone, length |-> 0, counter_value |-> <<>>,
     counter_before |-> 0, counter_after |-> 0,
     hash_number |-> <<>>, time_ns_to_encode |-> <<>>, suid |-> <<>>,
     outcome |-> "none", result |-> <<>>, value |-> <<>>]

InitWith(seeds) ==
    /\ counter \in seeds
    /\ counter_initial = counter
    /\ counter_lock = 0
    /\ pc = [t \in Threads |-> "idle"]
    /\ local = [t \in Threads |-> NoLocal]
    /\ ret = [t \in Threads |-> NoRet]
    /\ obtained = <<>>

Init == InitWith(CounterSeeds)

\* the calls that hold or will take a counter value they have not yet added
InFlight == Cardinality({t \in Threads : pc[t] \in {"acquire", "read", "incr"}})

\* mutant: the length is checked after the counter was taken
RejectLengthAfterCounter(t, at, length, error) ==
    /\ counter' = counter + 1
    /\ ret' = [ret EXCEPT ![t] =
                 [NoRet EXCEPT !.op = "suid_gen", !.at = at, !.length = length,
                               !.counter_before = counter, !.counter_after = counter',
                               !.outcome = error]]
    /\ UNCHANGED <<counter_lock, pc, local, obtained, counter_initial>>

\* raise ValueError: the call ends before anything else happens
RejectLength(t, at, length, error) ==
    /\ counter' = counter
    /\ ret' = [ret EXCEPT ![t] =
                 [NoRet EXCEPT !.op = "suid_gen", !.at = at, !.length = length,
                               !.counter_before = counter, !.counter_after = counter',
                               !.outcome = error]]
    /\ UNCHANGED <<counter_lock, pc, local, obtained, counter_initial>>

\* mutant: the maximum length itself is refused
LengthTooLongOffByOne(length) == length >= SUID_LENGTH_MAX

\* if length > SUID_LENGTH_MAX
LengthTooLong(length) == length > SUID_LENGTH_MAX

\* if length < SUID_LENGTH_MIN
LengthTooShort(length) == length < SUID_LENGTH_MIN

\* suid_gen is called: the two checks of length
Begin(t, at, length) ==
    /\ pc[t] = "idle"
    /\ (counter - counter_initial) + InFlight < MaxCalls
    /\ IF LengthTooLong(length) THEN RejectLength(t, at, length, RaiseLengthMax)
       ELSE IF LengthTooShort(length) THEN RejectLength(t, at, length, RaiseLengthMin)
       ELSE /\ pc' = [pc EXCEPT ![t] = "acquire"]
            /\ local' = [local EXCEPT ![t] =
                           [at |-> at, length |-> length, counter_value |-> <<>>,
                            counter_before |-> counter]]
            /\ ret' = [ret EXCEPT ![t] = NoRet]
            /\ UNCHANGED <<counter, counter_lock, obtained, counter_initial>>

\* mutant: the lock excludes nobody
LockAlwaysFree == TRUE

\* threading.Lock: acquired only while no thread holds it
LockFree == counter_lock = 0

\* with _counter_lock: (enter)
Acquire(t) ==
    /\ pc[t] = "acquire"
    /\ LockFree
    /\ counter_lock' = t
    /\ pc' = [pc EXCEPT ![t] = "read"]
    /\ UNCHANGED <<counter, local, ret, obtained, counter_initial>>

\* counter_value = _counter
ReadCounter(t) ==
    /\ pc[t] = "read"
    /\ local' = [local EXCEPT ![t].counter_value = <<counter>>]
    /\ obtained' = Append(obtained, counter)
    /\ pc' = [pc EXCEPT ![t] = "incr"]
    /\ UNCHANGED <<counter, counter_lock, ret, counter_initial>>

\* _counter += 1
IncrCounter(t) ==
    /\ pc[t] = "incr"
    /\ counter' = counter + 1
    /\ pc' = [pc EXCEPT ![t] = "release"]
    /\ UNCHANGED <<counter_lock, local, ret, obtained, counter_initial>>

\* with _counter_lock: (exit)
Release(t) ==
    /\ pc[t] = "release"
    /\ counter_lock' = 0
    /\ pc' = [pc EXCEPT ![t] = "rest"]
    /\ UNCHANGED <<counter, local, ret, obtained, counter_initial>>

\* the rest of suid_gen, which touches only the call's own variables
Finish(t, time_ns_now, hash_number) ==
    /\ pc[t] = "rest"
    /\ LET g == GenerateRest(local[t].at, local[t].length, time_ns_now, hash_number)
       IN  ret' = [ret EXCEPT ![t] =
                     [NoRet EXCEPT !.op = "suid_gen", !.at = local[t].at,
                                   !.length = local[t].length,
                                   !.counter_value = local[t].counter_value,
                                   !.counter_before = local[t].counter_before,
                                   !.counter_after = counter,
                                   !.hash_number = hash_number,
                                   !.time_ns_to_encode = <<g.time_ns_to_encode>>,
                                   !.outcome = g.outcome, !.result = g.result]]
    /\ pc' = [pc EXCEPT ![t] = "idle"]
    /\ local' = [local EXCEPT ![t] = NoLocal]
    /\ UNCHANGED <<counter, counter_lock, obtained, counter_initial>>

\* suid_to_datetime is called
Decode(t, suid) ==
    /\ pc[t] = "idle"
    /\ LET d == suid_to_datetime(suid)
       IN  ret' = [ret EXCEPT ![t] =
                     [NoRet EXCEPT !.op = "suid_to_datetime", !.suid = suid,
                                   !.outcome = d.outcome, !.value = d.value]]
    /\ UNCHANGED <<counter, counter_lock, pc, local, obtained, counter_initial>>

\* strings to decode: an identifier as returned, cut short, or with one character replaced
DecodePositions == {1, 2, 12, 13}

DecodeSymbols == {"a", "u"}

DecodeCuts == {0, 1, 5, 12}

DecodeInputs(suid) ==
    {suid}
    \cup {SubSeq(suid, 1, n) : n \in DecodeCuts}
    \cup {[suid EXCEPT ![i] = c] : i \in DecodePositions, c \in DecodeSymbols}

\* callers on several threads
Next ==
    \E t \in Threads :
        \/ \E at \in ConcurrentAts, length \in ConcurrentLengths : Begin(t, at, length)
        \/ Acquire(t)
        \/ ReadCounter(t)
        \/ IncrCounter(t)
        \/ Release(t)
        \/ \E now \in ConcurrentClockValues, h \in ConcurrentHashNumbers : Finish(t, now, h)

Spec == Init /\ [][Next]_vars

\* one caller, all the inputs
InitOneCaller == InitWith({COUNTER_INITIAL_MAX - 1})

NextOneCaller ==
    \E t \in OneCaller :
        \/ \E at \in Ats, length \in Lengths : Begin(t, at, length)
        \/ Acquire(t)
        \/ ReadCounter(t)
        \/ IncrCounter(t)
        \/ Release(t)
        \/ \E now \in ClockValues, h \in HashNumbers : Finish(t, now, h)
        \/ /\ ret[t].op = "suid_gen"
           /\ ret[t].outcome = Returned
           /\ \E suid \in DecodeInputs(ret[t].result) : Decode(t, suid)

SpecOneCaller == InitOneCaller /\ [][NextOneCaller]_vars

(***************************************************************************)
(* Properties.                                                             *)
(***************************************************************************)
GenCalls == {t \in Threads : ret[t].op = "suid_gen"}

GenReturned == {t \in GenCalls : ret[t].outcome = Returned}

DecodeCalls == {t \in Threads : ret[t].op = "suid_to_datetime"}

LengthErrors == {RaiseLengthMax, RaiseLengthMin}

\* the calls that got as far as computing the time to encode
TimeKnown == {t \in GenCalls : ret[t].time_ns_to_encode # <<>>}

EffectiveTime(t) == ret[t].time_ns_to_encode[1]

ValidTime(t) ==
    /\ ~EffectiveTime(t).neg
    /\ ~Less(UNIX_TIME_MAX_SUPPORTED, EffectiveTime(t).mag)

\* x - x % 50
Truncate50(x) == MulSmall(DivModSmall(x, 50)[1], 50)

\* the n bits of x above its lowest lo bits, as a number
BitField(x, lo, n) == ToNat(LowBits(ShiftRight(x, lo), n))

\* what is left of the hash number after a call of this length took its characters
Residual(t) == ShiftRight(ret[t].hash_number, BitsTaken(ret[t].length))

\* the time the caller asked for, in nanoseconds: the datetime given, else the clock reading
RequestedTimeNs(t) ==
    IF ret[t].at.given THEN MulSmall(ret[t].at.mag, 1000) ELSE EffectiveTime(t).mag

\* C1: the first 12 characters of an identifier generated for the timestamp t
\* decode (first character base 16, eleven characters base 32, times 50) to t
\* truncated to 50 ns, whatever the length and the hash number.
C1_RoundTrip ==
    \A t \in GenReturned :
        SuidTimeNs(SubSeq(ret[t].result, 1, 12)) = Truncate50(RequestedTimeNs(t))

\* C2: of two identifiers of the same length, the one that is the smaller string
\* does not decode to the later date/time.
C2_Sortable ==
    \A a, b \in GenReturned :
        (ret[a].length = ret[b].length /\ StrLess(ret[a].result, ret[b].result))
            => LessEq(suid_to_datetime(ret[a].result).value,
                      suid_to_datetime(ret[b].result).value)

\* C3 as stated: a length below 13 or above 108 ends in the length error, a length
\* in [13, 108] never does, and lengths 13 and 108 return an identifier whenever
\* the timestamp is valid.
C3_LengthValidation_AsStated ==
    \A t \in GenCalls :
        /\ (ret[t].length < 13 \/ ret[t].length > 108) => ret[t].outcome \in LengthErrors
        /\ (13 <= ret[t].length /\ ret[t].length <= 108) => ret[t].outcome \notin LengthErrors
        /\ (ret[t].length \in {13, 108} /\ t \in TimeKnown /\ ValidTime(t))
              => ret[t].outcome = Returned

\* C3 amended: a length below 13 or above 108 ends in the length error, a length
\* in [13, 108] never does, and lengths 13 and 108 with a valid timestamp return
\* an identifier of that length when bits of the hash number are left over, and
\* fail the assertion when none are.
C3_LengthValidation ==
    \A t \in GenCalls :
        /\ (ret[t].length < 13 \/ ret[t].length > 108)
              => (ret[t].outcome \in LengthErrors /\ t \notin TimeKnown)
        /\ (13 <= ret[t].length /\ ret[t].length <= 108) => ret[t].outcome \notin LengthErrors
        /\ (ret[t].length \in {13, 108} /\ t \in TimeKnown /\ ValidTime(t))
              => IF Residual(t) # <<>>
                 THEN ret[t].outcome = Returned /\ Len(ret[t].result) = ret[t].length
                 ELSE ret[t].outcome = RaiseAssertion

C3_Witness ==
    \E t \in GenReturned :
        ret[t].length = 108 /\ Len(ret[t].result) = 108

C5_CounterAtomic ==
    /\ \A i \in 1..Len(obtained) : obtained[i] = counter_initial + (i - 1)
    /\ \A a, b \in Threads :
          (a # b /\ local[a].counter_value # <<>> /\ local[b].counter_value # <<>>)
              => local[a].counter_value # local[b].counter_value
    /\ \A a, b \in Threads :
          (a # b /\ ret[a].counter_value # <<>> /\ ret[b].counter_value # <<>>)
              => ret[a].counter_value # ret[b].counter_value
    /\ \A a, b \in Threads :
          (local[a].counter_value # <<>> /\ ret[b].counter_value # <<>>)
              => local[a].counter_value # ret[b].counter_value

C5_Witness ==
    /\ Len(obtained) = 2
    /\ \E a, b \in Threads :
          /\ a # b
          /\ local[a].counter_value # <<>>
          /\ local[b].counter_value # <<>>
          /\ counter_lock = b

\* C7: a returned identifier has the requested length; its first character is the
\* base-16 symbol of the top 4 bits of t div 50, the next eleven the base-32
\* symbols of the other 55 bits, most significant first; then come length - 13
\* base-32 symbols of the hash number, least significant first; the last
\* character is the base-16 symbol of the next 4 bits of the hash number.
C7_Format ==
    \A t \in GenReturned :
        LET r == ret[t].result
            n == ret[t].length
            q == DivModSmall(EffectiveTime(t).mag, 50)[1]
            h == ret[t].hash_number
        IN  /\ Len(r) = n
            /\ r[1] = BASE16_ENCODE_ALPHABET[BitField(q, 55, 4) + 1]
            /\ ShiftRight(q, 59) = <<>>
            /\ \A k \in 1..11 :
                  r[1 + k] = BASE32_ENCODE_ALPHABET[BitField(q, 5 * (11 - k), 5) + 1]
            /\ \A i \in 1..(n - 13) :
                  r[12 + i] = BASE32_ENCODE_ALPHABET[BitField(h, 5 * (i - 1), 5) + 1]
            /\ r[n] = BASE16_ENCODE_ALPHABET[BitField(h, 5 * (n - 13), 4) + 1]

C7_Witness ==
    \E t \in GenReturned :
        /\ ret[t].length = 108
        /\ ret[t].hash_number = PatternHash
        /\ EffectiveTime(t).mag = ClockSample

\* C8: decoding fails with the lookup error exactly when one of the first 12
\* characters is outside its alphabet (the first: base 16, the others: base 32),
\* and otherwise gives what the first 12 characters alone give, whatever follows.
C8_DecodePrefixOnly ==
    \A t \in DecodeCalls :
        LET suid   == ret[t].suid
            prefix == SubSeq(suid, 1, Min(12, Len(suid)))
            Sym(a) == {a[i] : i \in 1..Len(a)}
            bad    == \E i \in 1..Len(prefix) :
                         prefix[i] \notin (IF i = 1 THEN Sym(BASE16_ENCODE_ALPHABET)
                                           ELSE Sym(BASE32_ENCODE_ALPHABET))
        IN  suid # <<>> =>
              /\ ret[t].outcome = RaiseKey <=> bad
              /\ ret[t].outcome = Returned <=> ~bad
              /\ ~bad =>
                    /\ ret[t].value = suid_to_datetime(prefix).value
                    /\ Len(prefix) = 12
                          => ret[t].value = suid_to_datetime(prefix \o <<"!", "a">>).value

C8_Witness ==
    \E t \in DecodeCalls :
        /\ Len(ret[t].suid) >= 13
        /\ ret[t].suid[13] = "a"
        /\ ret[t].outcome = Returned

\* C9: a call with a valid length and a valid time returns an identifier exactly
\* when the hash number still has a nonzero bit after the length - 13 base-32
\* digits and the base-16 digit were taken, and fails the assertion when it has none.
C9_EntropyLeft ==
    \A t \in TimeKnown :
        ValidTime(t) =>
            /\ Residual(t) = <<>> => (ret[t].outcome = RaiseAssertion /\ ret[t].result = <<>>)
            /\ Residual(t) # <<>> => ret[t].outcome = Returned

C9_Witness ==
    \E t \in GenCalls :
        /\ ret[t].length = 108
        /\ ret[t].outcome = RaiseAssertion
        /\ ret[t].hash_number = Ones(479)

\* C10 as stated: a call that ends in the length error or the timestamp error
\* leaves the counter as it was when the call began, and took no counter value.
C10_NoEffectOnFailure_AsStated ==
    \A t \in GenCalls :
        ret[t].outcome \in LengthErrors \cup {RaiseTimeNs}
            => (ret[t].counter_after = ret[t].counter_before /\ ret[t].counter_value = <<>>)

\* C10 amended: a call that ends in the length error leaves the counter as it was
\* and took no counter value; a call that ends in the timestamp error has taken
\* the counter value of its start, and the counter is one higher at its end.
C10_NoEffectOnFailure ==
    \A t \in GenCalls :
        /\ ret[t].outcome \in LengthErrors
              => (ret[t].counter_after = ret[t].counter_before /\ ret[t].counter_value = <<>>)
        /\ ret[t].outcome = RaiseTimeNs
              => /\ ret[t].counter_after = ret[t].counter_before + 1
                 /\ ret[t].counter_value = <<ret[t].counter_before>>

C10_Witness ==
    \E t \in GenCalls :
        /\ ret[t].outcome = RaiseTimeNs
        /\ ret[t].counter_after = ret[t].counter_before + 1

====
